---- MODULE Spec2Model ----
(***************************************************************************)
(* Model of the RFM12 "Comm" link layer: the foreground entry points       *)
(* (Init, Idle, RXInit, RXWait, RXGetPacket, TXConfig, TXInit, TXWait,     *)
(* TXPreInit), the interrupt handler ISR(RF_IRQ_vect) and the part of the  *)
(* RF driver they use (RF::Mode, RF::Transmit, RF::FIFOReset).              *)
(***************************************************************************)
EXTENDS Integers, Sequences, FiniteSets, TLC

(***************************************************************************)
(* Bounds of the exploration.                                              *)
(***************************************************************************)
\* payload lengths 1..MaxLen are passed to TXInit (besides MaxMesgSize)
MaxLen == 2
\* number of events: calls that change the engine (one that interrupts a
\* transfer in progress counts twice, as does one that rewrites the TX
\* buffer), buffer errors, corrupted bytes and rejected frames
MaxEvents == 4

(***************************************************************************)
(* Program constants.                                                      *)
(***************************************************************************)
SynchSize == 4
MaxMesgSize == 256
COMM_HEADSIZE == 2
COMM_TAILSIZE == 2
COMM_PACKETSIZE == COMM_HEADSIZE + COMM_TAILSIZE
CRCInit == 65535
SynchData == <<170, 170, 45, 212>>
\* sizeof(packet_t): Length, Type, Mesg[MaxMesgSize + COMM_TAILSIZE]
PacketSize == COMM_HEADSIZE + MaxMesgSize + COMM_TAILSIZE
\* sizeof(frame_t): Synch[SynchSize] + packet_t
FrameSize == SynchSize + PacketSize
\* the null pointer, as a cursor value that is no offset of a buffer
NULL == 0 - 1
\* number of bytes the test cases copy into the TX buffer
FillLen == 19
\* first byte of the counting pattern the test cases send
FillBases == {96}
\* values handed to TXConfig (19 is 0x13: more than four bits)
Configs == {3, 19}
\* a disturbed channel delivers the transmitted byte with these bits flipped
FlipMasks == {1}
\* the builds explored: COMM_TXRETRY and COMM_RXRETRY both 1 (as in the
\* source), and both 0
Builds == {<<TRUE, TRUE>>, <<FALSE, FALSE>>}
\* status words: RGIT/FFIT alone, and RGIT/FFIT with RGUR/FFOV
StatusOk == 32768
StatusErr == 40960

(***************************************************************************)
(* Bit operations on unsigned integers.                                    *)
(***************************************************************************)
Bit(x, w) == (x \div w) % 2

XorBit(a, b, w) == ((Bit(a, w) + Bit(b, w)) % 2) * w

\* exclusive or of two nibbles, as a table
XorNib ==
    [a \in 0..15 |-> [b \in 0..15 |->
        XorBit(a, b, 1) + XorBit(a, b, 2) + XorBit(a, b, 4) + XorBit(a, b, 8)]]

Xor8(a, b) == XorNib[a % 16][b % 16] + 16 * XorNib[a \div 16][b \div 16]

Xor16(a, b) == Xor8(a % 256, b % 256) + 256 * Xor8(a \div 256, b \div 256)

\* RF12_S_RGUR(SW): SW & (1<<13)
RF12_S_RGUR(SW) == Bit(SW, 8192) = 1

(***************************************************************************)
(* _crc_ccitt_update of <util/crc16.h>:                                    *)
(*   data ^= lo8(crc); data ^= data << 4;                                  *)
(*   return (((uint16_t)data << 8) | hi8(crc)) ^ (uint8_t)(data >> 4)      *)
(*          ^ ((uint16_t)data << 3);                                       *)
(***************************************************************************)
CrcStep1(crc, data) == Xor8(data, crc % 256)

CrcStep2(d) == Xor8(d, (d * 16) % 256)

CrcMix(crc, d) == Xor16(Xor16(d * 256 + (crc \div 256), d \div 16), d * 8)

crc_ccitt_update(crc, data) == CrcMix(crc, CrcStep2(CrcStep1(crc, data)))

\* the CRC loop of TXInit: n bytes of buf starting at offset from
\* (the two halves of the range are folded one after the other, the first
\* one's value being computed before it is passed on)
RECURSIVE CrcOver(_, _, _, _)
CrcOver(buf, from, n, crc) ==
    IF n = 0 THEN crc
    ELSE IF n = 1 THEN crc_ccitt_update(crc, buf[from])
    ELSE LET h == n \div 2
         IN CHOOSE r \in {CrcOver(buf, from + h, n - h, c) :
                             c \in {CrcOver(buf, from, h, crc)}} : TRUE

(***************************************************************************)
(* State.  The fields of Comm::State keep their names; CurMode is          *)
(* RF::CurMode, irq the RF interrupt's bit in EIMSK, TXRETRY and RXRETRY   *)
(* the build's COMM_TXRETRY and COMM_RXRETRY.  The cursors are offsets     *)
(* into their buffers (SendBuff.Raw, RecvBuff).                            *)
(*                                                                         *)
(* State.Status is written and read by the handler alone, within one      *)
(* invocation: it is the handler's input here.                             *)
(*                                                                         *)
(* fgpc is the position of the foreground code, res the last result of     *)
(* RXGetPacket.  wire records the bytes handed to RF::Transmit since the   *)
(* frame was last started (by TXInit) or restarted (after an underrun),    *)
(* txReq the length and the payload the last TXInit was called with.       *)
(* hwpos is the number of bytes the transceiver has delivered since its    *)
(* FIFO was last restarted, nEvents the number of events so far.           *)
(***************************************************************************)
VARIABLES SendBuff, SendCur, SendEnd, RecvBuff, RecvCur, RecvEnd,
          Mode, PacketsTX, PacketsRX, CtrErr, CRCErr, CRC,
          CurMode, irq, TXRETRY, RXRETRY,
          fgpc, res, wire, txReq, hwpos, nEvents

bufs == <<SendBuff, RecvBuff>>
cursors == <<SendCur, SendEnd, RecvCur, RecvEnd>>
sendCursors == <<SendCur, SendEnd>>
recvCursors == <<RecvCur, RecvEnd>>
stats == <<PacketsTX, PacketsRX, CtrErr, CRCErr>>
\* a transfer is in progress
Active == Mode \in {"MT", "Mr", "MR"}
\* k more events are explored
Event(k) ==
    /\ nEvents + k <= MaxEvents
    /\ nEvents' = nEvents + k
\* a call by the foreground that changes the engine
Called ==
    /\ fgpc = "run"
    /\ Event(IF Active THEN 2 ELSE 1)
build == <<TXRETRY, RXRETRY>>
\* everything RXGetPacket could touch: Comm::State, the radio, the interrupt
engine == <<SendBuff, SendCur, SendEnd, RecvBuff, RecvCur, RecvEnd, Mode,
            PacketsTX, PacketsRX, CtrErr, CRCErr, CRC, CurMode, irq>>
vars == <<SendBuff, SendCur, SendEnd, RecvBuff, RecvCur, RecvEnd,
          Mode, PacketsTX, PacketsRX, CtrErr, CRCErr, CRC,
          CurMode, irq, TXRETRY, RXRETRY,
          fgpc, res, wire, txReq, hwpos, nEvents>>

Modes == {"MI", "Mr", "MR", "MX", "Mt", "MT"}
RFModes == {"TX", "RX", "DEF", "ECO"}

\* ++ on the uint16_t counters, and on the uint32_t ones (whose wrap at 2^32
\* is beyond the values explored)
\* (a variant: an error is counted twice)
Inc16Twice(x) == (x + 2) % 65536
Inc16(x) == (x + 1) % 65536
Inc32(x) == x + 1

\* len_t is uint8_t: an int argument is converted on the call
len_t(n) == n % 256

(***************************************************************************)
(* Packet layout.                                                          *)
(***************************************************************************)
\* offsets of Length, Type.Raw and Mesg in packet_t
OffLength == 0
OffType == 1
OffMesg == COMM_HEADSIZE

\* Type.C.Control is the low nibble of Type.Raw, Type.C.Config the high one
Control(raw) == raw % 16
Config(raw) == raw \div 16

\* (a variant: the control nibble is stored into the whole byte Type.Raw)
SetControlRaw(raw, v) == v % 16

\* Type.C.Control = v and Type.C.Config = v keep the other bit-field
SetControl(raw, v) == Config(raw) * 16 + (v % 16)
SetConfig(raw, v) == (v % 16) * 16 + Control(raw)

\* (~Length) & 0x0F
NotLow(Length) == 15 - (Length % 16)

(***************************************************************************)
(* Init: the static initialisation of State followed by Comm::Init().      *)
(***************************************************************************)
Init ==
    /\ SendBuff = [i \in 0..(FrameSize - 1) |->
                     IF i < SynchSize THEN SynchData[i + 1] ELSE 0]
    /\ RecvBuff = [i \in 0..(PacketSize - 1) |-> 0]
    /\ SendCur = NULL /\ SendEnd = NULL
    /\ RecvCur = NULL /\ RecvEnd = NULL
    /\ Mode = "MI"
    /\ PacketsTX = 0 /\ PacketsRX = 0 /\ CtrErr = 0 /\ CRCErr = 0
    /\ CRC = 0
    /\ CurMode = "ECO"
    /\ irq = FALSE
    /\ \E b \in Builds : TXRETRY = b[1] /\ RXRETRY = b[2]
    /\ fgpc = "run"
    /\ res = [Length |-> 0, Buff |-> "NULL"]
    /\ wire = <<>>
    /\ txReq = [Length |-> 0, Mesg |-> <<>>]
    /\ hwpos = 0
    /\ nEvents = 0

(***************************************************************************)
(* RF driver.                                                              *)
(***************************************************************************)
\* RF::Mode: CurMode = Mode; RX also switches the FIFO off and on
RF_Mode(m) ==
    /\ CurMode' = m
    /\ hwpos' = IF m = "RX" THEN 0 ELSE hwpos

\* RF::FIFOReset: FIFO off and on, filling restarts at the next pattern
RF_FIFOReset == hwpos' = 0

(***************************************************************************)
(* General functions.                                                      *)
(***************************************************************************)
\* (a variant: the cursors are cleared)
IdleClearsCursors ==
    /\ Called
    /\ irq' = FALSE
    /\ RF_Mode("ECO")
    /\ Mode' = "MI"
    /\ SendCur' = NULL /\ SendEnd' = NULL
    /\ RecvCur' = NULL /\ RecvEnd' = NULL
    /\ UNCHANGED <<bufs, stats, CRC, build, fgpc, res, wire, txReq>>

\* (a variant: the statistics are cleared)
IdleClearsStats ==
    /\ Called
    /\ irq' = FALSE
    /\ RF_Mode("ECO")
    /\ Mode' = "MI"
    /\ PacketsTX' = 0 /\ PacketsRX' = 0 /\ CtrErr' = 0 /\ CRCErr' = 0
    /\ UNCHANGED <<bufs, cursors, CRC, build, fgpc, res, wire, txReq>>

Idle ==
    /\ Called
    /\ irq' = FALSE
    /\ RF_Mode("ECO")
    /\ Mode' = "MI"
    /\ UNCHANGED <<bufs, cursors, stats, CRC, build, fgpc, res,
                   wire, txReq>>

\* Comm::Init: RF::Init, RF_IRQ_CONFIG, Idle
CommInit == Idle

(***************************************************************************)
(* RX functions.                                                           *)
(***************************************************************************)
\* State.RecvCur = &State.RecvBuff; State.RecvEnd = RecvCur + HEADSIZE - 1
RXFirstCur == OffLength
RXHeadEnd == RXFirstCur + COMM_HEADSIZE - 1

RXInit ==
    /\ Called
    /\ IF CurMode # "RX" THEN RF_Mode("RX") ELSE UNCHANGED <<CurMode, hwpos>>
    /\ Mode' = "Mr"
    /\ CRC' = CRCInit
    /\ RecvCur' = RXFirstCur
    /\ RecvEnd' = RXHeadEnd
    /\ irq' = TRUE
    /\ UNCHANGED <<bufs, sendCursors, stats, build, fgpc, res, wire, txReq>>

\* RXWait: entered, and left once Mode is MI or MX (a call in MI or MX
\* returns at once and one in Mt or MT never: they are left out)
RXWaitCall ==
    /\ fgpc = "run"
    /\ Mode \in {"Mr", "MR"}
    /\ fgpc' = "RXWait"
    /\ UNCHANGED <<engine, build, res, wire, txReq, hwpos, nEvents>>

RXWaitReturn ==
    /\ fgpc = "RXWait"
    /\ Mode = "MI" \/ Mode = "MX"
    /\ fgpc' = "run"
    /\ UNCHANGED <<engine, build, res, wire, txReq, hwpos, nEvents>>

RXReady == (Mode = "MX") \/ (Mode = "MI")

\* (a variant: the buffer is handed out while the body is still received)
RXGetPacketEarly ==
    IF Mode # "MX" /\ Mode # "MR"
    THEN [Length |-> 0, Buff |-> "NULL"]
    ELSE [Length |-> RecvBuff[OffLength], Buff |-> "Mesg"]

\* the value RXGetPacket returns and stores into *Length
RXGetPacket ==
    IF Mode # "MX"
    THEN [Length |-> 0, Buff |-> "NULL"]
    ELSE [Length |-> RecvBuff[OffLength], Buff |-> "Mesg"]

\* (a variant: the frame is consumed by the call)
RXGetPacketCallConsume ==
    /\ fgpc = "run"
    /\ res' = RXGetPacket
    /\ Mode' = IF Mode = "MX" THEN "MI" ELSE Mode
    /\ UNCHANGED <<bufs, cursors, stats, CRC, CurMode, irq, build, fgpc, wire,
                   txReq, hwpos, nEvents>>

RXGetPacketCall ==
    /\ fgpc = "run"
    /\ res' = RXGetPacket
    /\ UNCHANGED <<engine, build, fgpc, wire, txReq, hwpos, nEvents>>

RXGetConfig == Config(RecvBuff[OffType])

\* the bytes behind the pointer RXGetPacket returns
RXMesg(n) == [i \in 1..n |-> RecvBuff[OffMesg + i - 1]]

(***************************************************************************)
(* TX functions.                                                           *)
(***************************************************************************)
\* offsets in SendBuff.Raw of the packet's fields
TxLength == SynchSize + OffLength
TxType == SynchSize + OffType
TxMesg == SynchSize + OffMesg

\* TXWait: entered, and left once Mode is not MT (a call in another mode
\* returns at once and is left out)
TXWaitCall ==
    /\ fgpc = "run"
    /\ Mode = "MT"
    /\ fgpc' = "TXWait"
    /\ UNCHANGED <<engine, build, res, wire, txReq, hwpos, nEvents>>

TXWaitReturn ==
    /\ fgpc = "TXWait"
    /\ Mode # "MT"
    /\ fgpc' = "run"
    /\ UNCHANGED <<engine, build, res, wire, txReq, hwpos, nEvents>>

TXReady == Mode = "Mt"

\* the test cases' use of TXGetBuff: FillLen bytes counting up from base
TXFill(base) ==
    /\ fgpc = "run"
    /\ Mode # "MT"
    /\ Event(2)
    /\ SendBuff' = [i \in DOMAIN SendBuff |->
                      IF i >= TxMesg /\ i < TxMesg + FillLen
                      THEN (base + (i - TxMesg)) % 256
                      ELSE SendBuff[i]]
    /\ UNCHANGED <<RecvBuff, cursors, Mode, stats, CRC, CurMode, irq,
                   build, fgpc, res, wire, txReq, hwpos>>

TXConfig(Cfg) ==
    /\ fgpc = "run"
    /\ Mode # "MT"
    /\ Event(2)
    /\ SendBuff' = [SendBuff EXCEPT ![TxType] = SetConfig(@, Cfg)]
    /\ UNCHANGED <<RecvBuff, cursors, Mode, stats, CRC, CurMode, irq,
                   build, fgpc, res, wire, txReq, hwpos>>

\* State.SendCur = State.SendBuff.Raw + 1
TXFirstCur == 1

\* State.SendEnd = State.SendCur + SynchSize + Length + COMM_PACKETSIZE + 1
TXSendEnd(Length) == TXFirstCur + SynchSize + Length + COMM_PACKETSIZE + 1

\* Byte = Raw + SynchSize; i = Length + COMM_HEADSIZE
TXCrcFirst == SynchSize
\* (a variant: the CRC loop counts the payload and one header byte only)
TXCrcCountShort(Length) == Length + 1
TXCrcCount(Length) == Length + COMM_HEADSIZE

\* the header written by TXInit
TXHeader(buf, Length) ==
    [buf EXCEPT ![TxLength] = Length,
                ![TxType] = SetControl(@, NotLow(Length))]

\* the n bytes the caller has put behind the pointer TXGetBuff returns
TXMesg(n) == [i \in 1..n |-> SendBuff[TxMesg + i - 1]]

\* the CRC TXInit computes over the buffer with its header written
TXCrc(buf, Length) == CrcOver(buf, TXCrcFirst, TXCrcCount(Length), CRCInit)

\* *Byte = CRC & 0x00FF; Byte++; *Byte = CRC >> 8, Byte after the loop
TXTrailer(buf, Length, crc) ==
    [buf EXCEPT ![TXCrcFirst + TXCrcCount(Length)] = crc % 256,
                ![TXCrcFirst + TXCrcCount(Length) + 1] = crc \div 256]

TXInit(n) ==
    /\ Called
    /\ LET Length == len_t(n)
           head == TXHeader(SendBuff, Length)
           crc == TXCrc(head, Length)
       IN /\ IF CurMode # "TX" THEN RF_Mode("TX")
                               ELSE UNCHANGED <<CurMode, hwpos>>
          /\ SendCur' = TXFirstCur
          /\ SendEnd' = TXSendEnd(Length)
          /\ Mode' = "MT"
          /\ wire' = <<SendBuff[0]>>
          /\ txReq' = [Length |-> n, Mesg |-> TXMesg(n)]
          /\ irq' = TRUE
          /\ CRC' = crc
          /\ SendBuff' = TXTrailer(head, Length, crc)
    /\ UNCHANGED <<RecvBuff, recvCursors, stats, build, fgpc, res>>

TXPreInit ==
    /\ Called
    /\ Mode' = "MI"
    /\ irq' = FALSE
    /\ RF_Mode("TX")
    /\ UNCHANGED <<bufs, cursors, stats, CRC, build, fgpc, res,
                   wire, txReq>>

(***************************************************************************)
(* The interrupt handler ISR(RF_IRQ_vect).  It runs when the interrupt is  *)
(* enabled; the status word it reads has RGUR/FFOV set or not, and on the  *)
(* RX path it reads one byte from the FIFO.                                *)
(***************************************************************************)
\* the byte behind the send cursor; past the buffer it is some other memory
StrayBytes == {0, 255}
TXByteAt(cur) ==
    IF cur \in DOMAIN SendBuff THEN {SendBuff[cur]} ELSE StrayBytes

\* the byte the transmitted frame has at the FIFO's position, if any
ReplayByte ==
    LET k == SynchSize + hwpos + 1
    IN IF k <= Len(wire) THEN {wire[k]} ELSE {}

\* (a variant: the receiver is given up whatever COMM_RXRETRY is)
ResetRXGiveUp(crc, pos) ==
    /\ Mode' = "MI"
    /\ CurMode' = "DEF"
    /\ hwpos' = pos
    /\ CRC' = crc
    /\ RecvCur' = NULL
    /\ RecvEnd' = NULL
    /\ irq' = FALSE

\* (a variant: the retry keeps the CRC it has reached)
ResetRXKeepCrc(crc, pos) ==
    IF RXRETRY
    THEN /\ RF_FIFOReset
         /\ Mode' = "Mr"
         /\ CRC' = crc
         /\ RecvCur' = RXFirstCur
         /\ RecvEnd' = RXHeadEnd
         /\ UNCHANGED <<CurMode, irq>>
    ELSE /\ Mode' = "MI"
         /\ CurMode' = "DEF"
         /\ hwpos' = pos
         /\ CRC' = crc
         /\ RecvCur' = NULL
         /\ RecvEnd' = NULL
         /\ irq' = FALSE

\* (a variant: giving up leaves the cursors where they are)
ResetRXKeepCursors(crc, pos) ==
    IF RXRETRY
    THEN /\ RF_FIFOReset
         /\ Mode' = "Mr"
         /\ CRC' = CRCInit
         /\ RecvCur' = RXFirstCur
         /\ RecvEnd' = RXHeadEnd
         /\ UNCHANGED <<CurMode, irq>>
    ELSE /\ Mode' = "MI"
         /\ CurMode' = "DEF"
         /\ hwpos' = pos
         /\ CRC' = crc
         /\ irq' = FALSE
         /\ UNCHANGED <<RecvCur, RecvEnd>>

\* the label ResetRX; crc and pos are the values reached before the jump
ResetRX(crc, pos) ==
    IF RXRETRY
    THEN /\ RF_FIFOReset
         /\ Mode' = "Mr"
         /\ CRC' = CRCInit
         /\ RecvCur' = RXFirstCur
         /\ RecvEnd' = RXHeadEnd
         /\ UNCHANGED <<CurMode, irq>>
    ELSE /\ Mode' = "MI"
         /\ CurMode' = "DEF"
         /\ hwpos' = pos
         /\ CRC' = crc
         /\ RecvCur' = NULL
         /\ RecvEnd' = NULL
         /\ irq' = FALSE

\* (a variant: the first byte is sent again but the cursor is not rewound)
TXUnderrunRetryNoRewind ==
    /\ wire' = <<SendBuff[0]>>
    /\ UNCHANGED <<SendCur, SendEnd, Mode, CurMode, irq>>

\* #if COMM_TXRETRY: the cursor is rewound and the first byte sent again
TXUnderrunRetry ==
    /\ SendCur' = TXFirstCur
    /\ wire' = <<SendBuff[0]>>
    /\ UNCHANGED <<SendEnd, Mode, CurMode, irq>>

\* (a variant: the interrupt is left enabled)
TXUnderrunAbortIrqOn ==
    /\ SendCur' = NULL
    /\ SendEnd' = NULL
    /\ Mode' = "MI"
    /\ CurMode' = "DEF"
    /\ UNCHANGED <<irq, wire>>

\* #else: the transmission is given up
TXUnderrunAbort ==
    /\ SendCur' = NULL
    /\ SendEnd' = NULL
    /\ Mode' = "MI"
    /\ CurMode' = "DEF"
    /\ irq' = FALSE
    /\ UNCHANGED wire

\* RGUR set while Mode is MT
ISR_TXUnderrun ==
    /\ irq
    /\ Mode = "MT"
    /\ Event(1)
    /\ RF12_S_RGUR(StatusErr)
    /\ CtrErr' = Inc16(CtrErr)
    /\ IF TXRETRY THEN TXUnderrunRetry ELSE TXUnderrunAbort
    /\ UNCHANGED <<bufs, recvCursors, PacketsTX, PacketsRX, CRCErr, CRC,
                   build, fgpc, res, txReq, hwpos>>

\* (a variant: the underrun's rewind is done whatever the mode)
ISR_RXOverrunRewinds ==
    /\ irq
    /\ Mode # "MT"
    /\ Event(1)
    /\ RF12_S_RGUR(StatusErr)
    /\ CtrErr' = Inc16(CtrErr)
    /\ ResetRX(CRC, hwpos)
    /\ SendCur' = TXFirstCur
    /\ UNCHANGED <<bufs, SendEnd, PacketsTX, PacketsRX, CRCErr,
                   build, fgpc, res, wire, txReq>>

\* (a variant: the FIFO is read and the byte stored before the reset)
ISR_RXOverrunStores ==
    /\ irq
    /\ Mode # "MT"
    /\ Event(1)
    /\ RF12_S_RGUR(StatusErr)
    /\ CtrErr' = Inc16(CtrErr)
    /\ ResetRX(CRC, hwpos)
    /\ RecvBuff' = IF RecvCur \in DOMAIN RecvBuff
                   THEN [RecvBuff EXCEPT ![RecvCur] = 255 - @] ELSE RecvBuff
    /\ UNCHANGED <<SendBuff, sendCursors, PacketsTX, PacketsRX, CRCErr,
                   build, fgpc, res, wire, txReq>>

\* RGUR/FFOV set in any other mode
ISR_RXOverrun ==
    /\ irq
    /\ Mode # "MT"
    /\ Event(1)
    /\ RF12_S_RGUR(StatusErr)
    /\ CtrErr' = Inc16(CtrErr)
    /\ ResetRX(CRC, hwpos)
    /\ UNCHANGED <<bufs, sendCursors, PacketsTX, PacketsRX, CRCErr,
                   build, fgpc, res, wire, txReq>>

\* (a variant: the transmitter is shut down, RF::Mode(RF::DEF))
TXDoneShutdown ==
    /\ Mode' = "Mt"
    /\ PacketsTX' = Inc32(PacketsTX)
    /\ irq' = FALSE
    /\ CurMode' = "DEF"
    /\ UNCHANGED <<SendCur, wire>>

\* State.SendCur == State.SendEnd: all sent, the transmitter is left on
TXDone ==
    /\ Mode' = "Mt"
    /\ PacketsTX' = Inc32(PacketsTX)
    /\ irq' = FALSE
    /\ UNCHANGED <<SendCur, wire, CurMode>>

\* no error, Mode is MT
ISR_TX ==
    /\ irq
    /\ Mode = "MT"
    /\ ~RF12_S_RGUR(StatusOk)
    /\ IF SendCur = SendEnd
       THEN TXDone
       ELSE /\ \E b \in TXByteAt(SendCur) : wire' = Append(wire, b)
            /\ SendCur' = SendCur + 1
            /\ UNCHANGED <<Mode, PacketsTX, irq, CurMode>>
    /\ UNCHANGED <<bufs, SendEnd, recvCursors, PacketsRX, CtrErr, CRCErr, CRC,
                   build, fgpc, res, txReq, hwpos, nEvents>>

\* the control nibble differs from the length's complement
CtrMismatch(buf) == Control(buf[OffType]) # NotLow(buf[OffLength])

\* (a variant: a zero Length is let through)
LenZeroIgnored(buf) == FALSE

\* State.RecvBuff.Length == 0
LenZero(buf) == buf[OffLength] = 0

\* (a variant: the end position leaves the trailer out)
RXBodyEndNoTail(cur, Length) == cur + Length

\* State.RecvEnd = State.RecvCur + State.RecvBuff.Length + COMM_TAILSIZE
RXBodyEnd(cur, Length) == cur + Length + COMM_TAILSIZE

\* the RX path with the byte b read from the FIFO (cost: 1 if b is corrupted);
\* a cursor outside RecvBuff is NULL, and the store through it lands outside
\* State: no variable here changes with it
ISR_RXByte(b, cost) ==
    LET buf == IF RecvCur \in DOMAIN RecvBuff
               THEN [RecvBuff EXCEPT ![RecvCur] = b] ELSE RecvBuff
        crc == crc_ccitt_update(CRC, b)
        pos == hwpos + 1
    IN
    /\ RecvBuff' = buf
    /\ IF RecvCur = RecvEnd
       THEN IF Mode = "Mr"
            THEN IF CtrMismatch(buf) \/ LenZero(buf)
                 THEN /\ Event(cost + 1)
                      /\ CtrErr' = Inc16(CtrErr)
                      /\ ResetRX(crc, pos)
                      /\ UNCHANGED <<PacketsRX, CRCErr>>
                 ELSE /\ Event(cost)
                      /\ RecvEnd' = RXBodyEnd(RecvCur, buf[OffLength])
                      /\ Mode' = "MR"
                      /\ RecvCur' = RecvCur + 1
                      /\ CRC' = crc
                      /\ hwpos' = pos
                      /\ UNCHANGED <<PacketsRX, CtrErr, CRCErr, CurMode, irq>>
            ELSE IF crc = 0
                 THEN /\ Event(cost)
                      /\ CurMode' = "DEF"
                      /\ irq' = FALSE
                      /\ PacketsRX' = Inc32(PacketsRX)
                      /\ Mode' = "MX"
                      /\ CRC' = crc
                      /\ hwpos' = pos
                      /\ UNCHANGED <<recvCursors, CtrErr, CRCErr>>
                 ELSE /\ Event(cost + 1)
                      /\ CRCErr' = Inc16(CRCErr)
                      /\ ResetRX(crc, pos)
                      /\ UNCHANGED <<PacketsRX, CtrErr>>
       ELSE /\ Event(cost)
            /\ RecvCur' = RecvCur + 1
            /\ CRC' = crc
            /\ hwpos' = pos
            /\ UNCHANGED <<RecvEnd, Mode, PacketsRX, CtrErr, CRCErr, CurMode,
                           irq>>

\* the bytes that byte may be corrupted to
NoiseByte == {Xor8(b, m) : b \in ReplayByte, m \in FlipMasks}

\* no error, any other mode: the byte is the transmitted one or a corrupted one
ISR_RX ==
    /\ irq
    /\ Mode # "MT"
    /\ ~RF12_S_RGUR(StatusOk)
    /\ \E b \in ReplayByte \cup NoiseByte :
          ISR_RXByte(b, IF b \in ReplayByte THEN 0 ELSE 1)
    /\ UNCHANGED <<SendBuff, sendCursors, PacketsTX, build, fgpc, res, wire,
                   txReq>>

ISR == ISR_TXUnderrun \/ ISR_RXOverrun \/ ISR_TX \/ ISR_RX

(***************************************************************************)
(* Specification.                                                          *)
(***************************************************************************)
TxLens == (1..MaxLen) \cup {MaxMesgSize}

Next ==
    \/ CommInit
    \/ Idle
    \/ RXInit
    \/ RXWaitCall
    \/ RXWaitReturn
    \/ RXGetPacketCall
    \/ TXWaitCall
    \/ TXWaitReturn
    \/ \E base \in FillBases : TXFill(base)
    \/ \E Cfg \in Configs : TXConfig(Cfg)
    \/ \E n \in TxLens : TXInit(n)
    \/ TXPreInit
    \/ ISR_TXUnderrun
    \/ ISR_RXOverrun
    \/ ISR_TX
    \/ ISR_RX

Spec == Init /\ [][Next]_vars

TypeOK ==
    /\ Mode \in Modes
    /\ CurMode \in RFModes
    /\ irq \in BOOLEAN
    /\ CRC \in 0..65535
    /\ \A i \in DOMAIN SendBuff : SendBuff[i] \in 0..255
    /\ \A i \in DOMAIN RecvBuff : RecvBuff[i] \in 0..255

(***************************************************************************)
(* The longest frames.  The caller starts a transmission when none is in   *)
(* progress and a reception once the frame has been sent, the channel      *)
(* delivers the frame undisturbed, and no buffer error is reported: every  *)
(* frame runs from its first byte to its last.                             *)
(***************************************************************************)
LongLens == {MaxMesgSize - 2, MaxMesgSize - 1}

\* TXInit with one of the longest messages, no transfer being in progress
TXInitLong(n) ==
    /\ ~Active
    /\ TXInit(n)

\* RXInit once the frame has been sent
RXInitAfterTX ==
    /\ Mode = "Mt"
    /\ RXInit

\* no error, any other mode than MT: the byte is the transmitted one
ISR_RXClean ==
    /\ irq
    /\ Mode # "MT"
    /\ ~RF12_S_RGUR(StatusOk)
    /\ \E b \in ReplayByte : ISR_RXByte(b, 0)
    /\ UNCHANGED <<SendBuff, sendCursors, PacketsTX, build, fgpc, res, wire,
                   txReq>>

NextLongFrames ==
    \/ \E n \in LongLens : TXInitLong(n)
    \/ RXInitAfterTX
    \/ ISR_TX
    \/ ISR_RXClean

SpecLongFrames == Init /\ [][NextLongFrames]_vars

(***************************************************************************)
(* The engine after a long run: UINT16_MAX times RXInit, an overrun        *)
(* reported by the radio, and Idle.  A round leaves the state of Init but  *)
(* for CtrErr, which it increments, the CRC, which RXInit sets, and, with  *)
(* COMM_RXRETRY, the receive cursors, which the handler leaves at the      *)
(* header.                                                                 *)
(***************************************************************************)
\* the largest value of the uint16_t counters CtrErr and CRCErr
UINT16_MAX == 65535

InitLongRun ==
    /\ SendBuff = [i \in 0..(FrameSize - 1) |->
                     IF i < SynchSize THEN SynchData[i + 1] ELSE 0]
    /\ RecvBuff = [i \in 0..(PacketSize - 1) |-> 0]
    /\ SendCur = NULL /\ SendEnd = NULL
    /\ Mode = "MI"
    /\ PacketsTX = 0 /\ PacketsRX = 0 /\ CRCErr = 0
    /\ CtrErr = UINT16_MAX
    /\ CRC = CRCInit
    /\ CurMode = "ECO"
    /\ irq = FALSE
    /\ \E b \in Builds : TXRETRY = b[1] /\ RXRETRY = b[2]
    /\ RecvCur = (IF RXRETRY THEN RXFirstCur ELSE NULL)
    /\ RecvEnd = (IF RXRETRY THEN RXHeadEnd ELSE NULL)
    /\ fgpc = "run"
    /\ res = [Length |-> 0, Buff |-> "NULL"]
    /\ wire = <<>>
    /\ txReq = [Length |-> 0, Mesg |-> <<>>]
    /\ hwpos = 0
    /\ nEvents = 0

SpecLongRun == InitLongRun /\ [][Next]_vars

(***************************************************************************)
(* The entry points statement by statement.  The handler runs between two  *)
(* statements of the foreground whenever the interrupt is enabled;         *)
(* statements between which it is disabled are taken together.  fgpc names *)
(* the statement the foreground is to execute next.  The calls that only   *)
(* read the engine, wait, or write the TX buffer between transfers are     *)
(* explored by Next and left out here.                                     *)
(***************************************************************************)
\* (a variant: the interrupt is not disabled first)
IdleEnterIrqOn ==
    /\ Called
    /\ fgpc' = "Idle2"
    /\ UNCHANGED <<bufs, cursors, Mode, stats, CRC, CurMode, irq, build, res,
                   wire, txReq, hwpos>>

\* Idle: RF_IRQ_OFF()
IdleEnter ==
    /\ Called
    /\ fgpc' = "Idle2"
    /\ irq' = FALSE
    /\ UNCHANGED <<bufs, cursors, Mode, stats, CRC, CurMode, build, res, wire,
                   txReq, hwpos>>

\* Idle: RF::Mode(RF::ECO); State.Mode = MI
IdleFinish ==
    /\ fgpc = "Idle2"
    /\ fgpc' = "run"
    /\ RF_Mode("ECO")
    /\ Mode' = "MI"
    /\ UNCHANGED <<bufs, cursors, stats, CRC, irq, build, res, wire, txReq,
                   nEvents>>

\* RXInit: RF_IRQ_OFF()
RXInitEnter ==
    /\ Called
    /\ fgpc' = "RXInit2"
    /\ irq' = FALSE
    /\ UNCHANGED <<bufs, cursors, Mode, stats, CRC, CurMode, build, res, wire,
                   txReq, hwpos>>

\* RXInit: the rest, up to RF_IRQ_ON()
RXInitFinish ==
    /\ fgpc = "RXInit2"
    /\ fgpc' = "run"
    /\ IF CurMode # "RX" THEN RF_Mode("RX") ELSE UNCHANGED <<CurMode, hwpos>>
    /\ Mode' = "Mr"
    /\ CRC' = CRCInit
    /\ RecvCur' = RXFirstCur
    /\ RecvEnd' = RXHeadEnd
    /\ irq' = TRUE
    /\ UNCHANGED <<bufs, sendCursors, stats, build, res, wire, txReq, nEvents>>

\* TXInit(n): RF_IRQ_OFF()
TXInitEnter(n) ==
    /\ Called
    /\ fgpc' = "TXInit2"
    /\ irq' = FALSE
    /\ txReq' = [Length |-> n, Mesg |-> TXMesg(n)]
    /\ UNCHANGED <<bufs, cursors, Mode, stats, CRC, CurMode, build, res, wire,
                   hwpos>>

\* TXInit: from RF::Mode(RF::TX) up to RF_IRQ_ON()
TXInitStart ==
    /\ fgpc = "TXInit2"
    /\ fgpc' = "TXInit3"
    /\ LET Length == len_t(txReq.Length)
       IN /\ IF CurMode # "TX" THEN RF_Mode("TX")
                               ELSE UNCHANGED <<CurMode, hwpos>>
          /\ SendBuff' = TXHeader(SendBuff, Length)
          /\ SendCur' = TXFirstCur
          /\ SendEnd' = TXSendEnd(Length)
          /\ Mode' = "MT"
          /\ wire' = <<SendBuff[0]>>
          /\ irq' = TRUE
    /\ UNCHANGED <<RecvBuff, recvCursors, stats, CRC, build, res, txReq,
                   nEvents>>

\* TXInit: the CRC loop and *Byte = (uint8_t)(State.CRC & 0x00FF)
TXInitCrcLow ==
    /\ fgpc = "TXInit3"
    /\ fgpc' = "TXInit4"
    /\ LET Length == len_t(txReq.Length)
           crc == TXCrc(SendBuff, Length)
       IN /\ CRC' = crc
          /\ SendBuff' = [SendBuff EXCEPT
                            ![TXCrcFirst + TXCrcCount(Length)] = crc % 256]
    /\ UNCHANGED <<RecvBuff, cursors, Mode, stats, CurMode, irq, build, res,
                   wire, txReq, hwpos, nEvents>>

\* TXInit: Byte++; *Byte = (uint8_t)(State.CRC >> 8)
TXInitCrcHigh ==
    /\ fgpc = "TXInit4"
    /\ fgpc' = "run"
    /\ LET Length == len_t(txReq.Length)
       IN SendBuff' = [SendBuff EXCEPT
                         ![TXCrcFirst + TXCrcCount(Length) + 1] = CRC \div 256]
    /\ UNCHANGED <<RecvBuff, cursors, Mode, stats, CRC, CurMode, irq, build,
                   res, wire, txReq, hwpos, nEvents>>

\* TXPreInit: State.Mode = MI
TXPreInitEnter ==
    /\ Called
    /\ fgpc' = "TXPreInit2"
    /\ Mode' = "MI"
    /\ UNCHANGED <<bufs, cursors, stats, CRC, CurMode, irq, build, res, wire,
                   txReq, hwpos>>

\* TXPreInit: RF_IRQ_OFF(); RF::Mode(RF::TX)
TXPreInitFinish ==
    /\ fgpc = "TXPreInit2"
    /\ fgpc' = "run"
    /\ irq' = FALSE
    /\ RF_Mode("TX")
    /\ UNCHANGED <<bufs, cursors, Mode, stats, CRC, build, res, wire, txReq,
                   nEvents>>

NextSteps ==
    \/ IdleEnter
    \/ IdleFinish
    \/ RXInitEnter
    \/ RXInitFinish
    \/ \E n \in TxLens : TXInitEnter(n)
    \/ TXInitStart
    \/ TXInitCrcLow
    \/ TXInitCrcHigh
    \/ TXPreInitEnter
    \/ TXPreInitFinish
    \/ ISR_TXUnderrun
    \/ ISR_RXOverrun
    \/ ISR_TX
    \/ ISR_RX

SpecSteps == Init /\ [][NextSteps]_vars

(***************************************************************************)
(* Properties.                                                             *)
(***************************************************************************)
\* the handler's RX path takes the transmitted frame's next byte, having taken
\* exactly the frame's bytes before it since the FIFO was restarted
FedInOrder ==
    /\ ISR_RX
    /\ Mode \in {"Mr", "MR"}
    /\ hwpos = RecvCur
    /\ \A i \in 0..(RecvCur - 1) : RecvBuff[i] = wire[SynchSize + 1 + i]
    /\ RecvBuff'[RecvCur] = wire[SynchSize + 1 + RecvCur]

\* C1: the bytes transmitted for TXInit(n) after the synchronisation bytes, fed
\* in order and without buffer errors to an engine armed by RXInit, are never
\* rejected, and with the last of them the engine is in MX and RXGetPacket
\* returns the length n and the n payload bytes TXInit was called with.
C1_RoundTrip ==
    [][FedInOrder =>
          /\ CtrErr' = CtrErr
          /\ CRCErr' = CRCErr
          /\ Mode' \in {"Mr", "MR", "MX"}
          /\ (RecvCur + 1 = COMM_PACKETSIZE + txReq.Length) =>
                /\ Mode' = "MX"
                /\ RXGetPacket' = [Length |-> txReq.Length, Buff |-> "Mesg"]
                /\ RXMesg(txReq.Length)' = txReq.Mesg]_vars

\* C1 for the lengths the Length field holds: 1 to 255
C1_RoundTripUpTo255 ==
    [][(FedInOrder /\ txReq.Length < MaxMesgSize) =>
          /\ CtrErr' = CtrErr
          /\ CRCErr' = CRCErr
          /\ Mode' \in {"Mr", "MR", "MX"}
          /\ (RecvCur + 1 = COMM_PACKETSIZE + txReq.Length) =>
                /\ Mode' = "MX"
                /\ RXGetPacket' = [Length |-> txReq.Length, Buff |-> "Mesg"]
                /\ RXMesg(txReq.Length)' = txReq.Mesg]_vars

\* a frame was received whole and RXGetPacket has returned it
C1_Received ==
    /\ Mode = "MX"
    /\ res.Buff = "Mesg"
    /\ res.Length = txReq.Length
    /\ RXMesg(res.Length) = txReq.Mesg
    /\ RecvBuff[OffMesg] # 0

\* C2 as stated: the trailer TXInit writes is the CRC over the control byte
\* and the payload, the Length byte excluded, low byte first, and the
\* receiver's CRC runs over the same bytes of what it has stored.
C2_CrcSkipsLength ==
    /\ Mode = "MT" =>
          LET L == SendBuff[TxLength]
              crc == CrcOver(SendBuff, TxType, L + 1, CRCInit)
          IN /\ SendBuff[TxMesg + L] = crc % 256
             /\ SendBuff[TxMesg + L + 1] = crc \div 256
    /\ (Mode \in {"Mr", "MR"} /\ RecvCur > OffType) =>
          CRC = CrcOver(RecvBuff, OffType, RecvCur - 1, CRCInit)

\* C2, amended: the trailer TXInit writes is the CRC (initial value 0xFFFF)
\* over the Length byte, the control byte and the payload, low byte first;
\* the receiver's CRC runs over every byte it has stored, the Length byte
\* first, and is zero when the frame is accepted.
C2_CrcFromLength ==
    /\ Mode = "MT" =>
          LET L == SendBuff[TxLength]
              crc == CrcOver(SendBuff, TxLength, L + 2, CRCInit)
          IN /\ SendBuff[TxMesg + L] = crc % 256
             /\ SendBuff[TxMesg + L + 1] = crc \div 256
    /\ Mode \in {"Mr", "MR"} =>
          CRC = CrcOver(RecvBuff, OffLength, RecvCur, CRCInit)
    /\ Mode = "MX" =>
          /\ CRC = 0
          /\ CRC = CrcOver(RecvBuff, OffLength, RecvCur + 1, CRCInit)

\* a frame with a payload of two bytes was accepted
C2_Accepted ==
    /\ Mode = "MX"
    /\ RecvBuff[OffLength] = 2
    /\ RecvCur = COMM_PACKETSIZE + 2 - 1
    /\ PacketsRX = 1

\* C3: once a transmission of 1 to 255 bytes without underrun is done, the
\* bytes handed to
\* RF::Transmit are the four synchronisation bytes, the Length byte, the
\* control byte, the payload bytes, the CRC low then high, and exactly one
\* dummy byte.
C3_OneDummy ==
    (Mode = "Mt" /\ CtrErr = 0 /\ txReq.Length < MaxMesgSize) =>
       LET L == wire[TxLength + 1]
           crc == CrcOver([i \in 0..(Len(wire) - 1) |-> wire[i + 1]],
                          TxLength, L + COMM_HEADSIZE, CRCInit)
       IN /\ Len(wire) = SynchSize + COMM_PACKETSIZE + L + 1
          /\ SubSeq(wire, 1, SynchSize) = SynchData
          /\ L = txReq.Length
          /\ Control(wire[TxType + 1]) = NotLow(L)
          /\ SubSeq(wire, TxMesg + 1, TxMesg + L) = SubSeq(txReq.Mesg, 1, L)
          /\ wire[TxMesg + L + 1] = crc % 256
          /\ wire[TxMesg + L + 2] = crc \div 256

\* C3 with the bytes the handler does send: the same frame followed by two
\* dummy bytes
C3_TwoDummies ==
    (Mode = "Mt" /\ CtrErr = 0 /\ txReq.Length < MaxMesgSize) =>
       LET L == wire[TxLength + 1]
           crc == CrcOver([i \in 0..(Len(wire) - 1) |-> wire[i + 1]],
                          TxLength, L + COMM_HEADSIZE, CRCInit)
       IN /\ Len(wire) = SynchSize + COMM_PACKETSIZE + L + 2
          /\ SubSeq(wire, 1, SynchSize) = SynchData
          /\ L = txReq.Length
          /\ Control(wire[TxType + 1]) = NotLow(L)
          /\ SubSeq(wire, TxMesg + 1, TxMesg + L) = SubSeq(txReq.Mesg, 1, L)
          /\ wire[TxMesg + L + 1] = crc % 256
          /\ wire[TxMesg + L + 2] = crc \div 256

\* C4: TXInit(n) with n up to MaxMesgSize writes n into the Length field
C4_LengthKept ==
    Mode = "MT" => SendBuff[TxLength] = txReq.Length

\* the header in buf passes the handler's check
HeaderOk(buf) ==
    /\ buf[OffLength] # 0
    /\ Control(buf[OffType]) = NotLow(buf[OffLength])

\* C5: while the body is received the stored header has a non-zero Length and
\* a control nibble equal to the complement of Length's low bits; the byte
\* that completes any other header ends the attempt, which stores no payload.
C5_HeaderGate ==
    /\ [](Mode = "MR" => HeaderOk(RecvBuff))
    /\ [][(ISR_RX /\ Mode = "Mr" /\ RecvCur = RecvEnd /\ ~HeaderOk(RecvBuff'))
             => (Mode' \in {"Mr", "MI"} /\ RecvCur' \in {RXFirstCur, NULL})]_vars

\* a header has just passed the check
C5_Passed ==
    /\ Mode = "MR"
    /\ RecvCur = OffMesg
    /\ RecvBuff[OffLength] = 2

\* C6: when the frame's last byte leaves a non-zero CRC, CRCErr grows by one
\* and no other counter changes, the frame is not accepted, and with RXRETRY
\* the engine listens for a header again: cursor at the buffer's start, end
\* COMM_HEADSIZE - 1 behind it, CRC 0xFFFF, interrupt enabled.
C6_CrcError ==
    [][(/\ ISR_RX
        /\ Mode = "MR"
        /\ RecvCur = RecvEnd
        /\ crc_ccitt_update(CRC, RecvBuff'[RecvCur]) # 0)
       => /\ CRCErr' = Inc16(CRCErr)
          /\ UNCHANGED <<PacketsTX, PacketsRX, CtrErr>>
          /\ Mode' # "MX"
          /\ RXRETRY =>
                /\ Mode' = "Mr"
                /\ RecvCur' = OffLength
                /\ RecvEnd' = OffLength + COMM_HEADSIZE - 1
                /\ CRC' = CRCInit
                /\ irq']_vars

\* a frame failed its CRC and the engine listens again
C6_Rearmed ==
    /\ RXRETRY
    /\ CRCErr = 1
    /\ CtrErr = 0
    /\ Mode = "Mr"
    /\ RecvCur = OffLength

\* the interrupt keeps being delivered while a frame is transmitted
SpecLive == Spec /\ WF_vars(ISR_TX)

\* C7: with TXRETRY an underrun in MT keeps MT, sends the first
\* synchronisation byte again and puts the cursor behind it; PacketsTX grows
\* only by one and only when MT becomes Mt; and a transmission the foreground
\* waits for reaches Mt.
C7_UnderrunRetry ==
    /\ [][(ISR_TXUnderrun /\ TXRETRY)
             => /\ Mode' = "MT"
                /\ SendCur' = 1
                /\ wire' = <<SynchData[1]>>
                /\ irq'
                /\ PacketsTX' = PacketsTX]_vars
    /\ [][PacketsTX' # PacketsTX
             => (Mode = "MT" /\ Mode' = "Mt" /\ PacketsTX' = PacketsTX + 1)]_vars
    /\ (TXRETRY /\ Mode = "MT" /\ fgpc = "TXWait") ~> (Mode = "Mt")

\* a transmission was done after two underruns
C7_DoneAfterUnderruns ==
    /\ TXRETRY
    /\ Mode = "Mt"
    /\ CtrErr = 2
    /\ PacketsTX = 1
    /\ fgpc = "TXWait"

\* C8: without TXRETRY an underrun in MT ends in MI with PacketsTX unchanged,
\* both send cursors NULL, the radio in DEF and the interrupt disabled; no
\* byte is sent and Mt is not reached until TXInit starts again.
C8_UnderrunAbort ==
    [][/\ (ISR_TXUnderrun /\ ~TXRETRY)
             => /\ Mode' = "MI"
                /\ PacketsTX' = PacketsTX
                /\ SendCur' = NULL
                /\ SendEnd' = NULL
                /\ CurMode' = "DEF"
                /\ ~irq'
                /\ wire' = wire
       /\ (Mode # "MT" /\ Mode' # "MT") => (wire' = wire)
       /\ (Mode # "MT" /\ Mode' = "Mt") => (Mode = "Mt")]_vars

\* a transmission was given up after an underrun
C8_GivenUp ==
    /\ ~TXRETRY
    /\ Mode = "MI"
    /\ CtrErr = 1
    /\ PacketsTX = 0
    /\ SendCur = NULL
    /\ CurMode = "DEF"
    /\ Len(wire) > 1

C10_Rearm ==
    [][(RXInit /\ Mode = "Mr")
          => /\ Mode' = "Mr"
             /\ RecvCur' = OffLength
             /\ RecvEnd' = OffLength + COMM_HEADSIZE - 1
             /\ CRC' = CRCInit
             /\ CurMode' = "RX"
             /\ irq'
             /\ hwpos' = 0]_vars

\* C10 without the FIFO: what RXInit does restore
C10_RearmEngine ==
    [][(RXInit /\ Mode = "Mr")
          => /\ Mode' = "Mr"
             /\ RecvCur' = OffLength
             /\ RecvEnd' = OffLength + COMM_HEADSIZE - 1
             /\ CRC' = CRCInit
             /\ CurMode' = "RX"
             /\ irq']_vars

StartCall ==
    \/ Idle
    \/ RXInit
    \/ TXPreInit
    \/ \E n \in TxLens : TXInit(n)

C13_Idle ==
    [][/\ (fgpc = "Idle2") => (~irq /\ ~ISR)
       /\ (fgpc = "Idle2" /\ fgpc' = "run")
             => (Mode' = "MI" /\ ~irq' /\ CurMode' = "ECO")
       /\ (~irq /\ irq') => (fgpc \in {"RXInit2", "TXInit2"})
       /\ ISR => irq]_vars

\* Idle has returned from a call made in the middle of a transmission
C13_IdledMidTransmission ==
    /\ fgpc = "run"
    /\ Mode = "MI"
    /\ CurMode = "ECO"
    /\ ~irq
    /\ SendCur > TXFirstCur
    /\ SendCur < SendEnd

\* C14: with RXRETRY the handler never takes Mr or MR to MI: a header error, a
\* CRC error and an overrun each lead to Mr with the cursor at the buffer's
\* start and the interrupt enabled; and RXWait entered after RXInit returns
\* only in MX, with a valid header stored and a CRC of zero.
C14_RetryKeepsListening ==
    [][/\ (RXRETRY /\ ISR /\ Mode \in {"Mr", "MR"})
             => /\ Mode' # "MI"
                /\ (CtrErr' # CtrErr \/ CRCErr' # CRCErr)
                      => (Mode' = "Mr" /\ RecvCur' = OffLength /\ irq')
       /\ (RXRETRY /\ RXWaitReturn)
             => (Mode = "MX" /\ CRC = 0 /\ HeaderOk(RecvBuff))]_vars

\* a frame arrived, after an error, while the foreground was in RXWait
C14_WaitedThroughError ==
    /\ RXRETRY
    /\ fgpc = "RXWait"
    /\ Mode = "MX"
    /\ CtrErr + CRCErr >= 1

\* C15 as stated: no step decreases PacketsTX, PacketsRX, CtrErr or CRCErr
C15_NeverDecrease ==
    [][/\ PacketsTX' >= PacketsTX
       /\ PacketsRX' >= PacketsRX
       /\ CtrErr' >= CtrErr
       /\ CRCErr' >= CRCErr]_vars

\* C15, amended: every step leaves each counter as it is or adds one to it,
\* modulo 65536 for CtrErr and CRCErr, which start again at 0 after 65535;
\* no entry point changes a counter.
C15_CountModulo ==
    [][/\ PacketsTX' \in {PacketsTX, PacketsTX + 1}
       /\ PacketsRX' \in {PacketsRX, PacketsRX + 1}
       /\ CtrErr' \in {CtrErr, (CtrErr + 1) % 65536}
       /\ CRCErr' \in {CRCErr, (CRCErr + 1) % 65536}
       /\ ~ISR => UNCHANGED stats]_vars

\* CtrErr has started again at 0 and counted one more error
C15_Wrapped ==
    /\ CtrErr = 1
    /\ nEvents >= 2
    /\ Mode \in {"MI", "Mr"}

\* the buffer position of the CRC trailer's low byte
TrailerAt == TxMesg + SendBuff[TxLength]

\* the CRC of the frame as the buffer holds it
FrameCrc == CrcOver(SendBuff, TxLength, SendBuff[TxLength] + COMM_HEADSIZE,
                    CRCInit)

\* C16: TXInit writes the frame buffer only with the interrupt disabled,
\* before it enables it, and every trailer byte the handler transmits is a
\* byte of the CRC of the frame
C16_CrcBeforeIrq ==
    [][/\ (fgpc \in {"TXInit2", "TXInit3", "TXInit4"}
            /\ SendBuff' # SendBuff) => (~irq /\ fgpc = "TXInit2")
       /\ (ISR_TX /\ SendCur = TrailerAt) =>
             wire'[Len(wire')] = FrameCrc % 256
       /\ (ISR_TX /\ SendCur = TrailerAt + 1) =>
             wire'[Len(wire')] = FrameCrc \div 256]_vars

\* what holds: Length and Control are written with the interrupt disabled,
\* the trailer is written with it enabled, and is the frame's CRC once
\* TXInit has returned
C16_CrcAfterIrq ==
    /\ [][/\ (fgpc = "TXInit2" /\ fgpc' = "TXInit3") =>
                (~irq /\ irq' /\ Mode' = "MT"
                   /\ SendBuff'[TxLength] = len_t(txReq.Length)
                   /\ Control(SendBuff'[TxType]) = NotLow(SendBuff'[TxLength]))
          /\ (fgpc \in {"TXInit3", "TXInit4"} /\ SendBuff' # SendBuff) =>
                (\E k \in {TrailerAt, TrailerAt + 1} :
                    \A i \in DOMAIN SendBuff :
                       i # k => SendBuff'[i] = SendBuff[i])]_vars
    /\ [](fgpc = "run" /\ Mode \in {"MT", "Mt"} =>
             /\ SendBuff[TrailerAt] = FrameCrc % 256
             /\ SendBuff[TrailerAt + 1] = FrameCrc \div 256)

\* a whole frame has gone out, without underrun, with a trailer byte that
\* is not the CRC's
C16_StaleTrailerSent ==
    /\ fgpc = "run"
    /\ Mode = "Mt"
    /\ CtrErr = 0
    /\ txReq.Length \in 1..MaxLen
    /\ Len(wire) >= TrailerAt + 2
    /\ wire[TrailerAt + 1] # FrameCrc % 256

\* C17: the interrupt is enabled only while Mode is MT, Mr or MR, at every
\* point of every entry point
C17_IrqOnlyActive == irq => Active

\* what holds: the interrupt is enabled in MI only between TXPreInit's
\* State.Mode = MI and its RF_IRQ_OFF(), and nowhere in MX or Mt
C17_IrqOnlyActiveButPreInit ==
    /\ (irq /\ fgpc # "TXPreInit2") => Active
    /\ (irq /\ ~Active) => Mode = "MI"

\* TXPreInit has set MI and has not yet disabled the interrupt
C17_PreInitWindow ==
    /\ fgpc = "TXPreInit2"
    /\ Mode = "MI"
    /\ irq
    /\ CurMode = "RX"

\* C18: TXPreInit called in Mr or MR (the radio is then in RX mode), with
\* the handler free to run during the call: from State.Mode = MI on, Mode,
\* the counters and the receive buffer stay as they are, and the call
\* returns in MI with the interrupt disabled and the radio in TX mode
C18_PreInitFromReceive ==
    [][/\ (fgpc = "TXPreInit2" /\ CurMode = "RX" /\ fgpc' = "TXPreInit2") =>
             UNCHANGED <<Mode, PacketsRX, CtrErr, CRCErr, RecvBuff>>
       /\ (fgpc = "TXPreInit2" /\ CurMode = "RX" /\ fgpc' = "run") =>
             (Mode' = "MI" /\ ~irq' /\ CurMode' = "TX")]_vars

\* what holds: the call returns with the interrupt disabled and the radio
\* in TX mode, and the handler runs at most in between its two statements
C18_PreInitReturns ==
    [][/\ (fgpc = "TXPreInit2" /\ fgpc' = "run") =>
             (~irq' /\ CurMode' = "TX" /\ Mode' = Mode
                /\ UNCHANGED <<stats, RecvBuff>>)
       /\ (fgpc = "TXPreInit2" /\ fgpc' = "TXPreInit2") => ISR]_vars

\* the handler has run after State.Mode = MI and has set the mode again
C18_HandlerInWindow ==
    /\ fgpc = "TXPreInit2"
    /\ Mode \in {"Mr", "MX"}
    /\ CtrErr + CRCErr + PacketsRX >= 1

\* C19: Mode and the radio's mode agree: MT implies CurMode TX, Mr and MR
\* imply CurMode RX
C19_ModesAgree ==
    /\ Mode = "MT" => CurMode = "TX"
    /\ Mode \in {"Mr", "MR"} => CurMode = "RX"

\* the link is listening and the radio is in TX mode
C19_ListeningInTX ==
    /\ fgpc = "run"
    /\ Mode = "Mr"
    /\ CurMode = "TX"
    /\ ~irq

\* C20: Mode goes from MT to Mt only in a handler invocation without
\* RGUR in which SendCur = SendEnd; it transmits nothing, adds one to
\* PacketsTX, disables the interrupt and leaves the radio in TX mode
C20_TransmitDone ==
    [][(Mode = "MT" /\ Mode' = "Mt") =>
          /\ ISR_TX
          /\ ~ISR_TXUnderrun
          /\ irq
          /\ SendCur = SendEnd
          /\ wire' = wire /\ SendCur' = SendCur /\ SendBuff' = SendBuff
          /\ PacketsTX' = PacketsTX + 1
          /\ UNCHANGED <<PacketsRX, CtrErr, CRCErr>>
          /\ ~irq'
          /\ CurMode = "TX" /\ CurMode' = "TX"]_vars

\* a frame has been sent to its end
C20_Done ==
    /\ Mode = "Mt"
    /\ PacketsTX = 1
    /\ SendCur = SendEnd
    /\ CurMode = "TX"
    /\ ~irq
    /\ Len(wire) = SendEnd

\* the handler's invocation that declares a frame received
FrameReadyStep ==
    /\ ISR_RX
    /\ irq
    /\ RecvCur = RecvEnd
    /\ CRC' = 0
    /\ PacketsRX' = PacketsRX + 1
    /\ UNCHANGED <<PacketsTX, CtrErr, CRCErr>>
    /\ ~irq'
    /\ CurMode' = "DEF"
    /\ RecvCur' = RecvCur

\* C21: MX is entered only from MR, only by a handler invocation in which
\* RecvCur = RecvEnd and the CRC with the byte folded in is 0; it adds one
\* to PacketsRX, disables the interrupt, sets the radio to DEF and leaves
\* RecvCur where it is
C21_FrameReady ==
    [][(Mode # "MX" /\ Mode' = "MX") => (Mode = "MR" /\ FrameReadyStep)]_vars

\* what holds: MX is entered by such an invocation, from MR or, the
\* handler running between TXPreInit's two statements, from MI
C21_FrameReadyOrPreInit ==
    [][(Mode # "MX" /\ Mode' = "MX") =>
          /\ FrameReadyStep
          /\ Mode = "MR" \/ (Mode = "MI" /\ fgpc = "TXPreInit2")]_vars

\* MX has been entered during TXPreInit, by the first error-free byte
C21_ReadyFromIdle ==
    /\ fgpc = "TXPreInit2"
    /\ Mode = "MX"
    /\ PacketsRX = 1
    /\ CtrErr + CRCErr = 0

\* a handler invocation on the receive side that counts an error
RXFailure ==
    /\ ISR
    /\ Mode # "MT"
    /\ CtrErr' # CtrErr \/ CRCErr' # CRCErr

C23_BufferError ==
    [][/\ (ISR_RXOverrun /\ Mode \in {"Mr", "MR"}) =>
             /\ RecvBuff' = RecvBuff
             /\ CtrErr' = (CtrErr + 1) % 65536
             /\ UNCHANGED <<CRCErr, PacketsRX, PacketsTX>>
             /\ IF RXRETRY
                THEN /\ Mode' = "Mr"
                     /\ RecvCur' = RXFirstCur /\ RecvEnd' = RXHeadEnd
                     /\ CRC' = CRCInit
                     /\ hwpos' = 0
                     /\ irq' /\ CurMode' = CurMode
                ELSE /\ Mode' = "MI"
                     /\ CRC' = CRC
                     /\ ~irq'
       /\ ISR_TXUnderrun =>
             /\ SendCur' <= SendCur
             /\ SendBuff' = SendBuff
             /\ CtrErr' = (CtrErr + 1) % 65536
             /\ UNCHANGED <<CRCErr, PacketsRX, PacketsTX>>]_vars

\* an overrun in the middle of a frame's body has re-armed the receiver
C23_OverrunInBody ==
    /\ RXRETRY
    /\ Mode = "Mr"
    /\ CtrErr = 1 /\ CRCErr = 0
    /\ RecvCur = RXFirstCur
    /\ CRC = CRCInit
    /\ hwpos = 0
    /\ HeaderOk(RecvBuff)

\* C24 as stated: in MI all four cursors are NULL
C24_IdleCursorsNull ==
    Mode = "MI" =>
       (SendCur = NULL /\ SendEnd = NULL /\ RecvCur = NULL /\ RecvEnd = NULL)

\* C24, amended: only the handler clears cursors, and only those of the
\* direction it gives up: the send cursors when it aborts a transmission
\* on an underrun, the receive cursors when it gives up a reception;
\* Idle and TXPreInit leave all four cursors as they are
C24_CursorsClearedOnAbort ==
    [][/\ (Idle \/ TXPreInit) => (Mode' = "MI" /\ UNCHANGED cursors)
       /\ (ISR /\ Mode' = "MI") =>
             IF Mode = "MT"
             THEN /\ SendCur' = NULL /\ SendEnd' = NULL
                  /\ UNCHANGED recvCursors
             ELSE /\ RecvCur' = NULL /\ RecvEnd' = NULL
                  /\ UNCHANGED sendCursors]_vars

\* Idle has been called on an armed receiver: MI, the cursors still set
C24_IdleWithCursors ==
    /\ Mode = "MI"
    /\ CurMode = "ECO"
    /\ RecvCur = RXFirstCur
    /\ RecvEnd = RXHeadEnd
    /\ CtrErr + CRCErr = 0

\* a handler invocation in Mr or MR that takes a byte and counts no error
RXByteTaken ==
    /\ ISR_RX
    /\ Mode \in {"Mr", "MR"}
    /\ CtrErr' = CtrErr /\ CRCErr' = CRCErr

C26_HalfDuplex ==
    [][/\ (ISR /\ Mode = "MT") =>
             UNCHANGED <<RecvBuff, recvCursors, PacketsRX, CRCErr>>
       /\ (ISR /\ Mode \in {"Mr", "MR"}) =>
             UNCHANGED <<SendBuff, sendCursors, PacketsTX, wire>>
       /\ ISR => \/ UNCHANGED <<SendBuff, sendCursors, wire>>
                 \/ UNCHANGED <<RecvBuff, recvCursors>>]_vars

\* a frame is being received after one has been sent: the send side is as
\* the last transmit invocation left it
C26_ReceivingAfterSend ==
    /\ Mode = "MR"
    /\ PacketsTX = 1
    /\ SendCur = SendEnd
    /\ Len(wire) = SendEnd
    /\ RecvCur > OffType

\* the handler rejects a header: it is at the control byte in Mr and the
\* header with that byte stored fails a check
HeaderRejected ==
    /\ ISR_RX
    /\ Mode = "Mr"
    /\ RecvCur = RecvEnd
    /\ CtrMismatch(RecvBuff') \/ LenZero(RecvBuff')

\* C27: a handler invocation changes at most one of the four counters, by
\* one (CtrErr and CRCErr are uint16_t, see C15).  A rejected header counts
\* one CtrErr, also when both checks fail, and no CRCErr; a CRC failure one
\* CRCErr only; a buffer error one CtrErr only; an invocation that only
\* stores or transmits a byte none.
C27_ErrorAccounting ==
    [][/\ ISR =>
             \/ UNCHANGED stats
             \/ CtrErr' = (CtrErr + 1) % 65536
                   /\ UNCHANGED <<CRCErr, PacketsRX, PacketsTX>>
             \/ CRCErr' = (CRCErr + 1) % 65536
                   /\ UNCHANGED <<CtrErr, PacketsRX, PacketsTX>>
             \/ PacketsRX' = PacketsRX + 1
                   /\ UNCHANGED <<CtrErr, CRCErr, PacketsTX>>
             \/ PacketsTX' = PacketsTX + 1
                   /\ UNCHANGED <<CtrErr, CRCErr, PacketsRX>>
       /\ HeaderRejected =>
             (CtrErr' = (CtrErr + 1) % 65536 /\ CRCErr' = CRCErr)
       /\ (ISR_RX /\ Mode = "MR" /\ RecvCur = RecvEnd /\ CRC' # 0) =>
             (CRCErr' = (CRCErr + 1) % 65536 /\ CtrErr' = CtrErr)
       /\ (ISR_RXOverrun \/ ISR_TXUnderrun) =>
             (CtrErr' = (CtrErr + 1) % 65536 /\ CRCErr' = CRCErr)
       /\ (ISR_TX /\ SendCur # SendEnd) => UNCHANGED stats
       /\ (ISR_RX /\ Mode \in {"Mr", "MR"} /\ RecvCur # RecvEnd) =>
             UNCHANGED stats
       /\ (ISR_RX /\ Mode = "Mr" /\ Mode' = "MR") => UNCHANGED stats]_vars

\* a header with Length 0 and a wrong control nibble has been rejected and
\* counted once
C27_BothChecksFail ==
    /\ CtrErr = 1
    /\ CRCErr = 0
    /\ LenZero(RecvBuff)
    /\ CtrMismatch(RecvBuff)
    /\ RecvBuff[OffType] # 0
    /\ Mode \in {"Mr", "MI"}

\* the receive cursors are inside RecvBuff and in order
RecvCursorsInside ==
    /\ RecvCur \in DOMAIN RecvBuff
    /\ RecvEnd \in DOMAIN RecvBuff
    /\ RecvCur <= RecvEnd

\* every Length a validated header can hold gives an end position inside
\* RecvBuff
BodyEndInside ==
    \A Length \in 1..(MaxMesgSize - 1) :
       RXBodyEnd(RXHeadEnd, Length) \in DOMAIN RecvBuff

\* C28: in Mr and MR the receive cursor and the end position are inside
\* RecvBuff, the cursor not beyond the end, for every header (Length 1 to
\* 255); the handler never stores a byte outside RecvBuff
C28_ReceiveInside ==
    /\ [](Mode \in {"Mr", "MR"} => RecvCursorsInside)
    /\ [](BodyEndInside)
    /\ [][ISR_RX => RecvCur \in DOMAIN RecvBuff]_vars

\* what holds: all of it in Mr and MR; the handler stores outside RecvBuff
\* only through a NULL cursor, in MI, between TXPreInit's two statements
C28_ReceiveInsideButPreInit ==
    /\ [](Mode \in {"Mr", "MR"} => RecvCursorsInside)
    /\ [](BodyEndInside)
    /\ [][/\ (ISR_RX /\ Mode \in {"Mr", "MR"}) => RecvCur \in DOMAIN RecvBuff
          /\ (ISR_RX /\ RecvCur \notin DOMAIN RecvBuff) =>
                (RecvCur = NULL /\ Mode = "MI" /\ fgpc = "TXPreInit2")]_vars

\* during TXPreInit, called while a frame was being sent, the handler has
\* taken a byte with the receive cursors NULL and counted a CRC error
C28_StoredThroughNull ==
    /\ fgpc = "TXPreInit2"
    /\ CRCErr = 1
    /\ hwpos = 1
    /\ SendCur > TXFirstCur /\ SendCur < SendEnd
    /\ PacketsTX = 0
    /\ \A i \in DOMAIN RecvBuff : RecvBuff[i] = 0

\* C29: for every Length from 1 to 255 given to TXInit, every position the
\* handler reads through SendCur, the dummy positions included, is inside
\* SendBuff
C29_TransmitInside ==
    [][(ISR_TX /\ SendCur # SendEnd /\ txReq.Length < MaxMesgSize) =>
          SendCur \in DOMAIN SendBuff]_vars

\* what holds: the reads are inside SendBuff up to Length 254; with 255
\* the second dummy position is the first one behind the buffer
C29_TransmitInsideBut255 ==
    /\ [][(ISR_TX /\ SendCur # SendEnd /\ txReq.Length < MaxMesgSize) =>
             \/ SendCur \in DOMAIN SendBuff
             \/ /\ txReq.Length = MaxMesgSize - 1
                /\ SendCur = FrameSize
                /\ SendCur + 1 = SendEnd]_vars
    /\ [](\A Length \in 1..(MaxMesgSize - 2) :
             TXSendEnd(Length) - 1 \in DOMAIN SendBuff)

\* a frame of 255 bytes has been sent to its end, the last byte handed to
\* the radio read from behind SendBuff
C29_ReadBehindBuffer ==
    /\ Mode = "Mt"
    /\ txReq.Length = MaxMesgSize - 1
    /\ SendEnd = FrameSize + 1
    /\ Len(wire) = FrameSize + 1
    /\ wire[FrameSize + 1] \in StrayBytes

====
